---- MODULE Spec2Model ----
(***************************************************************************)
(* Model of arxiv_researcher/app.py: the pipeline wired in main()          *)
(*   btn.click(pdf_to_mmd).success(generate_individual_summary)            *)
(*                        .success(generate_final_summary)                 *)
(* Text is a sequence of tokens; concatenation of str is \o.               *)
(* A markup document is a sequence of lines; a line is a header line of    *)
(* level 1..3 with its text, or a content line (level 0).                  *)
(***************************************************************************)
EXTENDS Naturals, Sequences, FiniteSets

\* ---------------------------------------------------------------- bounds
MaxLines == 3
MaxChunks == 2
MaxSplitLines == 5

\* ---------------------------------------------------------------- inputs
HeaderTexts == {"A", "B"}
ContentTexts == {"\\("}
ChunkContents == {<<>>, <<"x">>}
PdfFiles == {"None", "upload.pdf"}
PdfLinks == {"", "https://arxiv.org/pdf/2308.11417.pdf"}

Levels == 1..3

HeaderLines == [level : Levels, text : HeaderTexts]
ContentLines == [level : {0}, text : ContentTexts]
AllLines == HeaderLines \cup ContentLines

SeqsUpTo(S, n) == UNION {[1..m -> S] : m \in 0..n}

\* the contents the OCR tool can leave in the .mmd file
MmdFiles == SeqsUpTo(AllLines, MaxLines)

\* ---------------------------------------------------------------- text
Last(seq) == seq[Len(seq)]

RECURSIVE Flatten(_)
Flatten(ss) == IF ss = <<>> THEN <<>> ELSE Head(ss) \o Flatten(Tail(ss))

IsPrefix(a, b) == Len(a) <= Len(b) /\ SubSeq(b, 1, Len(a)) = a

\* initial values of the three output components
OcrPlaceholder == <<[level |-> 0, text |-> "OCR Output"]>>
IndividualPlaceholder == <<"Individual Summary, wait for OCR to be done...">>
FinalPlaceholder == <<"Overall Summary, wait for all individual summaries to be generated...">>

NoDataMessage ==
    <<[level |-> 0,
       text |-> "No data provided. Upload a pdf file or provide a pdf link and try again!"]>>

\* content.replace(r"\(", "$").replace(r"\)", "$").replace(r"\[", "$$").replace(r"\]", "$$")
ReplaceDelimiter(t) ==
    CASE t = "\\(" -> "$"
      [] t = "\\)" -> "$"
      [] t = "\\[" -> "$$"
      [] t = "\\]" -> "$$"
      [] OTHER -> t

SwitchMathDelimiters(content) ==
    [i \in 1..Len(content) |->
        [level |-> content[i].level, text |-> ReplaceDelimiter(content[i].text)]]

\* ---------------------------------------------------------------- splitter
\* MarkdownHeaderTextSplitter.split_text as called at line 142: a header line of a
\* configured level updates the tracked headers and opens no chunk by itself;
\* a content line belongs to the chunk of the tracked headers at that point;
\* neighbouring content under equal metadata is one chunk. Lines are taken as
\* stripped and non-blank.
headers_to_split_on == <<"Header 1", "Header 2", "Header 3">>

PopDeeper_same_level(stack, L) == SelectSeq(stack, LAMBDA h : h.level # L)

\* the header stack of the splitter after a header of level L: every entry of
\* level >= L is popped, the new header is pushed
RECURSIVE PopDeeper(_, _)
PopDeeper(stack, L) ==
    IF stack # <<>> /\ stack[Len(stack)].level >= L
    THEN PopDeeper(SubSeq(stack, 1, Len(stack) - 1), L)
    ELSE stack

PushHeader(stack, line) ==
    Append(PopDeeper(stack, line.level),
           [level |-> line.level, key |-> headers_to_split_on[line.level], val |-> line.text])

\* metadata: the tracked headers in insertion order, as (key, value) pairs
MetadataOf(stack) == [i \in 1..Len(stack) |-> [key |-> stack[i].key, val |-> stack[i].val]]

SameMetadata(m1, m2) ==
    {m1[i] : i \in 1..Len(m1)} = {m2[i] : i \in 1..Len(m2)}

\* one content line joins the last chunk when the metadata agree, else opens a chunk
AddContent(chunks, md, text) ==
    IF chunks # <<>> /\ SameMetadata(chunks[Len(chunks)].metadata, md)
    THEN [chunks EXCEPT ![Len(chunks)].page_content = Append(@, text)]
    ELSE Append(chunks, [metadata |-> md, page_content |-> <<text>>])

RECURSIVE SplitFrom(_, _, _)
SplitFrom(lines, stack, chunks) ==
    IF lines = <<>> THEN chunks
    ELSE LET line == Head(lines) IN
         IF line.level \in Levels
         THEN SplitFrom(Tail(lines), PushHeader(stack, line), chunks)
         ELSE SplitFrom(Tail(lines), stack, AddContent(chunks, MetadataOf(stack), line.text))

split_text(text) == SplitFrom(text, <<>>, <<>>)

\* ---------------------------------------------------------------- aggregator
\* json.dumps(split.metadata)
RECURSIVE JsonPairs(_, _)
JsonPairs(md, i) ==
    IF i > Len(md) THEN <<>>
    ELSE (IF i > 1 THEN <<",">> ELSE <<>>) \o <<md[i].key, ":", md[i].val>> \o JsonPairs(md, i + 1)

JsonDumps(md) == <<"{">> \o JsonPairs(md, 1) \o <<"}">>

\* the body of `for key in split.metadata.keys()`: one pass of the if/elif chain
HeaderBranch(key, val, header_to_append_in) ==
    IF key = "Header 3" THEN <<"\n", "#", "#", "#", " ", val, "\n">>
    ELSE IF key = "Header 2" THEN <<"\n", "#", "#", " ", val, "\n">>
    ELSE IF key = "Header 1" THEN <<"\n", "#", " ", val, "\n">>
    ELSE header_to_append_in

HeaderLoop_break(md, i, acc) ==
    IF md = <<>> THEN acc ELSE HeaderBranch(md[1].key, md[1].val, acc)

RECURSIVE HeaderLoop(_, _, _)
HeaderLoop(md, i, acc) ==
    IF i > Len(md) THEN acc
    ELSE HeaderLoop(md, i + 1, HeaderBranch(md[i].key, md[i].val, acc))

HeaderToAppend(split) == HeaderLoop(split.metadata, 1, <<>>)

\* ---------------------------------------------------------------- state
VARIABLES
    stage,              \* position of the event chain of main()
    failed_at,          \* the stage whose handler raised, "none" otherwise
    raised,             \* what was raised, "none" otherwise
    conv,               \* position inside pdf_to_mmd
    file_exists,        \* file_path.exists()
    mmd_file,           \* output/<stem>.mmd
    acquired,           \* branch of lines 67-75: "none", "no_data", "file"
    parsed_output,      \* value of the three output components
    individual_summary,
    final_summary,
    md_header_splits,   \* locals of generate_individual_summary
    k,                  \* index of `split` in md_header_splits, 0 before the loop
    header_to_append,
    summary,
    summary_docs,
    stream,             \* individual_summary_chain.stream(...): "none", "open", "exhausted", "failed"
    docs,               \* locals of generate_final_summary
    final_acc,
    final_stream,
    calls,              \* history: generation calls issued for sections, in order
    received,           \* history: chunks delivered per section
    emitted,            \* history: values yielded by generate_individual_summary
    final_calls,        \* history: inputs of the final generation calls
    final_received,     \* history: chunks delivered by the final stream
    final_emitted,      \* history: values yielded by generate_final_summary
    entered,            \* history: stages entered, in order
    other               \* a second invocation of the two generators: its locals and outputs

vars == <<stage, failed_at, raised, conv, file_exists, mmd_file, acquired,
          parsed_output, individual_summary,
          final_summary, md_header_splits, k, header_to_append, summary, summary_docs,
          stream, docs, final_acc, final_stream, calls, received, emitted,
          final_calls, final_received, final_emitted, entered, other>>

components == <<parsed_output, individual_summary, final_summary>>
aggregator == <<md_header_splits, k, header_to_append, summary, summary_docs, stream>>
aggregator_history == <<calls, received, emitted>>
synthesizer == <<docs, final_acc, final_stream>>
synthesizer_history == <<final_calls, final_received, final_emitted>>
conversion == <<conv, file_exists, mmd_file, acquired>>

\* no second invocation
OtherIdle ==
    [stage |-> "Idle", parsed_output |-> <<>>, individual_summary |-> IndividualPlaceholder,
     md_header_splits |-> <<>>, k |-> 0, summary |-> <<>>, stream |-> "none",
     received |-> <<>>, emitted |-> <<>>, docs |-> <<>>, final_acc |-> <<>>,
     final_stream |-> "none", final_received |-> <<>>, final_emitted |-> <<>>]

Init ==
    /\ stage = "Idle"
    /\ failed_at = "none"
    /\ raised = "none"
    /\ conv = "start"
    /\ file_exists = FALSE
    /\ mmd_file = [exists |-> FALSE, content |-> <<>>]
    /\ acquired = "none"
    /\ parsed_output = OcrPlaceholder
    /\ individual_summary = IndividualPlaceholder
    /\ final_summary = FinalPlaceholder
    /\ md_header_splits = <<>>
    /\ k = 0
    /\ header_to_append = <<>>
    /\ summary = <<>>
    /\ summary_docs = <<>>
    /\ stream = "none"
    /\ docs = <<>>
    /\ final_acc = <<>>
    /\ final_stream = "none"
    /\ calls = <<>>
    /\ received = <<>>
    /\ emitted = <<>>
    /\ final_calls = <<>>
    /\ final_received = <<>>
    /\ final_emitted = <<>>
    /\ entered = <<>>
    /\ other = OtherIdle

\* ---------------------------------------------------------------- main(): the event chain
\* btn.click(fn=pdf_to_mmd, inputs=[pdf_file, pdf_link], ...)
BtnClick ==
    /\ stage = "Idle"
    /\ stage' = "Converting"
    /\ entered' = Append(entered, "Converting")
    /\ UNCHANGED <<failed_at, raised, conversion, components, aggregator,
                   aggregator_history, synthesizer, synthesizer_history>>
    /\ UNCHANGED other

\* .success(...) runs its handler once the handler before it returned without raising
IndividualMayStart == stage = "Converted"

FinalMayStart_then == stage = "Summarized" \/ (stage = "Error" /\ failed_at = "Summarizing")

FinalMayStart == stage = "Summarized"

\* ---------------------------------------------------------------- pdf_to_mmd
Raise(at, what) ==
    /\ stage' = "Error"
    /\ failed_at' = at
    /\ raised' = what

\* lines 67-78 for the arguments of the click. pdf_file is None and pdf_link == "":
\* the message is returned as the markup. Otherwise file_name is the download
\* target (written only on status 200) or "not yet implemented", and
\* assert file_path.exists() decides
AcquireFile ==
    /\ stage = "Converting" /\ conv = "start"
    /\ \E pdf_file \in PdfFiles, pdf_link \in PdfLinks :
        IF pdf_file = "None" /\ pdf_link = ""
        THEN /\ acquired' = "no_data"
             /\ parsed_output' = NoDataMessage
             /\ conv' = "returned"
             /\ stage' = "Converted"
             /\ UNCHANGED <<failed_at, raised, file_exists>>
        ELSE /\ acquired' = "file"
             /\ UNCHANGED parsed_output
             /\ \E e \in BOOLEAN :
                 /\ file_exists' = e
                 /\ IF e
                    THEN conv' = "acquired" /\ UNCHANGED <<stage, failed_at, raised>>
                    ELSE conv' = "raised" /\ Raise("Converting", "file_path does not exist")
    /\ UNCHANGED <<mmd_file, individual_summary, final_summary, aggregator,
                   aggregator_history, synthesizer, synthesizer_history, entered>>
    /\ UNCHANGED other

\* nougat_ocr: the tool's exit status is not looked at; it leaves a .mmd file or none
NougatOcr ==
    /\ stage = "Converting" /\ conv = "acquired"
    /\ \/ mmd_file' = [exists |-> FALSE, content |-> <<>>]
       \/ \E content \in MmdFiles : mmd_file' = [exists |-> TRUE, content |-> content]
    /\ conv' = "ocr_done"
    /\ UNCHANGED <<stage, failed_at, raised, file_exists, acquired, components, aggregator,
                   aggregator_history, synthesizer, synthesizer_history, entered>>
    /\ UNCHANGED other

MarkdownMissing_unchecked(f) == FALSE

\* assert markdown_path.exists()
MarkdownMissing(f) == ~f.exists

\* lines 86-98: assert; read; switch math delimiters; return
LoadMarkdown ==
    /\ stage = "Converting" /\ conv = "ocr_done"
    /\ IF MarkdownMissing(mmd_file)
       THEN /\ conv' = "raised"
            /\ Raise("Converting", "markdown_path does not exist")
            /\ UNCHANGED parsed_output
       ELSE /\ parsed_output' = SwitchMathDelimiters(mmd_file.content)
            /\ conv' = "returned"
            /\ stage' = "Converted"
            /\ UNCHANGED <<failed_at, raised>>
    /\ UNCHANGED <<file_exists, mmd_file, acquired, individual_summary, final_summary,
                   aggregator, aggregator_history, synthesizer, synthesizer_history, entered>>
    /\ UNCHANGED other

\* ---------------------------------------------------------------- generate_individual_summary
\* lines 133-147: split the markup, summary = "", summary_docs = []
StartIndividual ==
    /\ IndividualMayStart
    /\ md_header_splits' = split_text(parsed_output)
    /\ summary' = <<>>
    /\ summary_docs' = <<>>
    /\ k' = 0
    /\ header_to_append' = <<>>
    /\ stream' = "none"
    /\ stage' = "Splitting"
    /\ entered' = Append(entered, "Splitting")
    /\ UNCHANGED <<failed_at, raised, conversion, components, aggregator_history,
                   synthesizer, synthesizer_history>>
    /\ UNCHANGED other

LoopMayAdvance_concurrent == stage \in {"Splitting", "Summarizing"}

\* the for loop takes the next split once the stream of the one before is exhausted
LoopMayAdvance ==
    \/ stage = "Splitting"
    \/ stage = "Summarizing" /\ stream = "exhausted"

NextSplit_same(i) == IF i = 0 THEN 1 ELSE i

NextSplit(i) == i + 1

Accumulate_replace(acc, content) == content

Accumulate_prepend(acc, content) == content \o acc

Accumulate_drop(acc, content) == acc

\* summary += s.content
Accumulate(acc, content) == acc \o content

BeginSection_yield_header ==
    /\ LoopMayAdvance
    /\ k < Len(md_header_splits)
    /\ LET i == NextSplit(k)
           split == md_header_splits[i]
           h == HeaderToAppend(split)
       IN /\ k' = i
          /\ header_to_append' = h
          /\ summary' = Accumulate(summary, h)
          /\ calls' = Append(calls, [section |-> i,
                                     headers |-> JsonDumps(split.metadata),
                                     page_content |-> split.page_content])
          /\ received' = Append(received, <<>>)
    /\ emitted' = Append(emitted, summary')
    /\ individual_summary' = summary'
    /\ stream' = "open"
    /\ stage' = "Summarizing"
    /\ entered' = IF stage = "Summarizing" THEN entered ELSE Append(entered, "Summarizing")
    /\ UNCHANGED <<failed_at, raised, conversion, parsed_output, final_summary,
                   md_header_splits, summary_docs, synthesizer, synthesizer_history>>
    /\ UNCHANGED other

\* lines 149-162: header_to_append, summary += header_to_append, the stream is requested
BeginSection ==
    /\ LoopMayAdvance
    /\ k < Len(md_header_splits)
    /\ LET i == NextSplit(k)
           split == md_header_splits[i]
           h == HeaderToAppend(split)
       IN /\ k' = i
          /\ header_to_append' = h
          /\ summary' = Accumulate(summary, h)
          /\ calls' = Append(calls, [section |-> i,
                                     headers |-> JsonDumps(split.metadata),
                                     page_content |-> split.page_content])
          /\ received' = Append(received, <<>>)
    /\ stream' = "open"
    /\ stage' = "Summarizing"
    /\ entered' = IF stage = "Summarizing" THEN entered ELSE Append(entered, "Summarizing")
    /\ UNCHANGED <<failed_at, raised, conversion, components, md_header_splits,
                   summary_docs, emitted, synthesizer, synthesizer_history>>
    /\ UNCHANGED other

\* lines 162-166: one chunk arrives; summary += s.content; yield summary
StreamChunk ==
    /\ stage = "Summarizing" /\ stream = "open"
    /\ Len(received[Len(received)]) < MaxChunks
    /\ \E content \in ChunkContents :
        /\ summary' = Accumulate(summary, content)
        /\ received' = [received EXCEPT ![Len(received)] = Append(@, content)]
    /\ emitted' = Append(emitted, summary')
    /\ individual_summary' = summary'
    /\ UNCHANGED <<stage, failed_at, raised, conversion, parsed_output,
                   final_summary, md_header_splits, k, header_to_append, summary_docs,
                   stream, calls, synthesizer, synthesizer_history, entered>>
    /\ UNCHANGED other

\* the stream is exhausted; lines 168-169 append the section to summary_docs
StreamEnd ==
    /\ stage = "Summarizing" /\ stream = "open"
    /\ stream' = "exhausted"
    /\ summary_docs' = Append(summary_docs, md_header_splits[k])
    /\ UNCHANGED <<stage, failed_at, raised, conversion, components,
                   md_header_splits, k, header_to_append, summary, aggregator_history,
                   synthesizer, synthesizer_history, entered>>
    /\ UNCHANGED other

StreamFail_retry ==
    /\ stage = "Summarizing" /\ stream = "open"
    /\ calls' = Append(calls, Last(calls))
    /\ UNCHANGED <<stage, failed_at, raised, conversion, components, aggregator, received,
                   emitted, synthesizer, synthesizer_history, entered>>
    /\ UNCHANGED other

StreamFail_skip ==
    /\ stage = "Summarizing" /\ stream = "open"
    /\ stream' = "exhausted"
    /\ failed_at' = "Summarizing"
    /\ raised' = "generation failed"
    /\ summary_docs' = Append(summary_docs, md_header_splits[k])
    /\ UNCHANGED <<stage, conversion, components, md_header_splits, k, header_to_append,
                   summary, aggregator_history, synthesizer, synthesizer_history, entered>>
    /\ UNCHANGED other

\* the generation call raises: nothing in the generator catches it
StreamFail ==
    /\ stage = "Summarizing" /\ stream = "open"
    /\ stream' = "failed"
    /\ Raise("Summarizing", "generation failed")
    /\ UNCHANGED <<conversion, components, md_header_splits, k, header_to_append,
                   summary, summary_docs, aggregator_history, synthesizer,
                   synthesizer_history, entered>>
    /\ UNCHANGED other

\* the for loop has no split left: the generator returns
FinishIndividual ==
    /\ LoopMayAdvance
    /\ k >= Len(md_header_splits)
    /\ stage' = "Summarized"
    /\ UNCHANGED <<failed_at, raised, conversion, components, aggregator,
                   aggregator_history, synthesizer, synthesizer_history, entered>>
    /\ UNCHANGED other

\* ---------------------------------------------------------------- generate_final_summary
\* inputs=[individual_summary]: the value the component holds, which is the last
\* value yielded into it, or its initial value when nothing was yielded;
\* final_summary = ""; the stream is requested with {"docs": individual_summaries}
StartFinal ==
    /\ FinalMayStart
    /\ docs' = individual_summary
    /\ final_acc' = <<>>
    /\ final_stream' = "open"
    /\ final_calls' = Append(final_calls, individual_summary)
    /\ stage' = "Synthesizing"
    /\ entered' = Append(entered, "Synthesizing")
    /\ UNCHANGED <<failed_at, raised, conversion, components, aggregator,
                   aggregator_history, final_received, final_emitted>>
    /\ UNCHANGED other

\* final_summary += s.content; yield final_summary
FinalChunk ==
    /\ stage = "Synthesizing" /\ final_stream = "open"
    /\ Len(final_received) < MaxChunks
    /\ \E content \in ChunkContents :
        /\ final_acc' = Accumulate(final_acc, content)
        /\ final_received' = Append(final_received, content)
    /\ final_emitted' = Append(final_emitted, final_acc')
    /\ final_summary' = final_acc'
    /\ UNCHANGED <<stage, failed_at, raised, conversion, parsed_output,
                   individual_summary, aggregator, aggregator_history, docs, final_stream,
                   final_calls, entered>>
    /\ UNCHANGED other

FinalEnd ==
    /\ stage = "Synthesizing" /\ final_stream = "open"
    /\ final_stream' = "exhausted"
    /\ stage' = "Done"
    /\ entered' = Append(entered, "Done")
    /\ UNCHANGED <<failed_at, raised, conversion, components, aggregator,
                   aggregator_history, docs, final_acc, synthesizer_history>>
    /\ UNCHANGED other

FinalFail_fallback ==
    /\ stage = "Synthesizing" /\ final_stream = "open"
    /\ final_stream' = "failed"
    /\ Raise("Synthesizing", "generation failed")
    /\ final_emitted' = Append(final_emitted, docs)
    /\ final_summary' = docs
    /\ UNCHANGED <<conversion, parsed_output, individual_summary, aggregator,
                   aggregator_history, docs, final_acc, final_calls, final_received, entered>>
    /\ UNCHANGED other

FinalFail ==
    /\ stage = "Synthesizing" /\ final_stream = "open"
    /\ final_stream' = "failed"
    /\ Raise("Synthesizing", "generation failed")
    /\ UNCHANGED <<conversion, components, aggregator, aggregator_history,
                   docs, final_acc, synthesizer_history, entered>>
    /\ UNCHANGED other

\* ---------------------------------------------------------------- a second invocation
\* Each call of generate_individual_summary and generate_final_summary has its own
\* locals (md_header_splits, summary_docs, summary, final_summary) and its own chains;
\* the module keeps no mutable state between calls. The second invocation runs the
\* same code on the record other.
first == <<stage, failed_at, raised, conv, file_exists, mmd_file, acquired, parsed_output,
           individual_summary, final_summary, md_header_splits, k, header_to_append,
           summary, summary_docs, stream, docs, final_acc, final_stream, calls, received,
           emitted, final_calls, final_received, final_emitted, entered>>

\* the chunks the second invocation's streams deliver: told apart from the first's
OtherChunkContents == {<<"y">>}

OtherStartIndividual ==
    /\ other.stage = "Converted"
    /\ other' = [other EXCEPT !.md_header_splits = split_text(other.parsed_output),
                              !.summary = <<>>,
                              !.k = 0,
                              !.stream = "none",
                              !.stage = "Splitting"]
    /\ UNCHANGED first

OtherLoopMayAdvance ==
    \/ other.stage = "Splitting"
    \/ other.stage = "Summarizing" /\ other.stream = "exhausted"

OtherBeginSection ==
    /\ OtherLoopMayAdvance
    /\ other.k < Len(other.md_header_splits)
    /\ LET i == NextSplit(other.k)
           h == HeaderToAppend(other.md_header_splits[i])
       IN other' = [other EXCEPT !.k = i,
                                 !.summary = Accumulate(@, h),
                                 !.received = Append(@, <<>>),
                                 !.stream = "open",
                                 !.stage = "Summarizing"]
    /\ UNCHANGED first

OtherStreamChunk_global ==
    /\ other.stage = "Summarizing" /\ other.stream = "open"
    /\ Len(Last(other.received)) < MaxChunks
    /\ \E content \in OtherChunkContents :
        LET acc == Accumulate(other.summary, content)
        IN /\ other' = [other EXCEPT !.summary = acc,
                                     !.received[Len(other.received)] = Append(@, content),
                                     !.emitted = Append(@, acc),
                                     !.individual_summary = acc]
           /\ summary' = Accumulate(summary, content)
    /\ UNCHANGED <<stage, failed_at, raised, conv, file_exists, mmd_file, acquired,
                   parsed_output, individual_summary, final_summary, md_header_splits, k,
                   header_to_append, summary_docs, stream, docs, final_acc, final_stream,
                   calls, received, emitted, final_calls, final_received, final_emitted,
                   entered>>

OtherStreamChunk ==
    /\ other.stage = "Summarizing" /\ other.stream = "open"
    /\ Len(Last(other.received)) < MaxChunks
    /\ \E content \in OtherChunkContents :
        LET acc == Accumulate(other.summary, content)
        IN other' = [other EXCEPT !.summary = acc,
                                  !.received[Len(other.received)] = Append(@, content),
                                  !.emitted = Append(@, acc),
                                  !.individual_summary = acc]
    /\ UNCHANGED first

OtherStreamEnd ==
    /\ other.stage = "Summarizing" /\ other.stream = "open"
    /\ other' = [other EXCEPT !.stream = "exhausted"]
    /\ UNCHANGED first

OtherStreamFail ==
    /\ other.stage = "Summarizing" /\ other.stream = "open"
    /\ other' = [other EXCEPT !.stream = "failed", !.stage = "Error"]
    /\ UNCHANGED first

OtherFinishIndividual ==
    /\ OtherLoopMayAdvance
    /\ other.k >= Len(other.md_header_splits)
    /\ other' = [other EXCEPT !.stage = "Summarized"]
    /\ UNCHANGED first

OtherStartFinal ==
    /\ other.stage = "Summarized"
    /\ other' = [other EXCEPT !.docs = other.individual_summary,
                              !.final_acc = <<>>,
                              !.final_stream = "open",
                              !.stage = "Synthesizing"]
    /\ UNCHANGED first

OtherFinalChunk ==
    /\ other.stage = "Synthesizing" /\ other.final_stream = "open"
    /\ Len(other.final_received) < MaxChunks
    /\ \E content \in OtherChunkContents :
        LET acc == Accumulate(other.final_acc, content)
        IN other' = [other EXCEPT !.final_acc = acc,
                                  !.final_received = Append(@, content),
                                  !.final_emitted = Append(@, acc)]
    /\ UNCHANGED first

OtherFinalEnd ==
    /\ other.stage = "Synthesizing" /\ other.final_stream = "open"
    /\ other' = [other EXCEPT !.final_stream = "exhausted", !.stage = "Done"]
    /\ UNCHANGED first

OtherFinalFail ==
    /\ other.stage = "Synthesizing" /\ other.final_stream = "open"
    /\ other' = [other EXCEPT !.final_stream = "failed", !.stage = "Error"]
    /\ UNCHANGED first

\* ---------------------------------------------------------------- specification
Next ==
    \/ BtnClick
    \/ AcquireFile
    \/ NougatOcr
    \/ LoadMarkdown
    \/ StartIndividual
    \/ BeginSection
    \/ StreamChunk
    \/ StreamEnd
    \/ StreamFail
    \/ FinishIndividual
    \/ StartFinal
    \/ FinalChunk
    \/ FinalEnd
    \/ FinalFail

Spec == Init /\ [][Next]_vars

\* every handler of the chain, once started or due, is run to its end by the
\* event queue; the click itself is up to the user
Handlers ==
    \/ AcquireFile
    \/ NougatOcr
    \/ LoadMarkdown
    \/ StartIndividual
    \/ BeginSection
    \/ StreamChunk
    \/ StreamEnd
    \/ StreamFail
    \/ FinishIndividual
    \/ StartFinal
    \/ FinalChunk
    \/ FinalEnd
    \/ FinalFail

FairSpec == Spec /\ WF_vars(Handlers)

\* ---------------------------------------------------------------- the splitter alone
\* generate_individual_summary is entered with the markup of a longer file
SplitInit ==
    /\ \E content \in SeqsUpTo(AllLines, MaxSplitLines) :
        /\ mmd_file = [exists |-> TRUE, content |-> content]
        /\ parsed_output = SwitchMathDelimiters(content)
    /\ stage = "Converted"
    /\ failed_at = "none"
    /\ raised = "none"
    /\ conv = "returned"
    /\ file_exists = TRUE
    /\ acquired = "file"
    /\ individual_summary = IndividualPlaceholder
    /\ final_summary = FinalPlaceholder
    /\ md_header_splits = <<>>
    /\ k = 0
    /\ header_to_append = <<>>
    /\ summary = <<>>
    /\ summary_docs = <<>>
    /\ stream = "none"
    /\ docs = <<>>
    /\ final_acc = <<>>
    /\ final_stream = "none"
    /\ calls = <<>>
    /\ received = <<>>
    /\ emitted = <<>>
    /\ final_calls = <<>>
    /\ final_received = <<>>
    /\ final_emitted = <<>>
    /\ entered = <<"Converting">>
    /\ other = OtherIdle

SplitNext == StartIndividual

SplitSpec == SplitInit /\ [][SplitNext]_vars

\* ---------------------------------------------------------------- two invocations
\* Both invocations have their converted document and run their two generators in
\* any interleaving, which includes one wholly after the other.
ConcDocs ==
    { <<[level |-> 1, text |-> "A"], [level |-> 0, text |-> "\\("]>>,
      <<[level |-> 2, text |-> "B"], [level |-> 0, text |-> "\\("]>> }

TwoInit ==
    /\ stage = "Converted"
    /\ failed_at = "none"
    /\ raised = "none"
    /\ conv = "returned"
    /\ file_exists = TRUE
    /\ acquired = "file"
    /\ \E content \in ConcDocs :
        /\ mmd_file = [exists |-> TRUE, content |-> content]
        /\ parsed_output = SwitchMathDelimiters(content)
    /\ individual_summary = IndividualPlaceholder
    /\ final_summary = FinalPlaceholder
    /\ md_header_splits = <<>>
    /\ k = 0
    /\ header_to_append = <<>>
    /\ summary = <<>>
    /\ summary_docs = <<>>
    /\ stream = "none"
    /\ docs = <<>>
    /\ final_acc = <<>>
    /\ final_stream = "none"
    /\ calls = <<>>
    /\ received = <<>>
    /\ emitted = <<>>
    /\ final_calls = <<>>
    /\ final_received = <<>>
    /\ final_emitted = <<>>
    /\ entered = <<"Converting">>
    /\ \E content \in ConcDocs :
        other = [OtherIdle EXCEPT !.stage = "Converted",
                                  !.parsed_output = SwitchMathDelimiters(content)]

TwoNext ==
    \/ StartIndividual
    \/ BeginSection
    \/ StreamChunk
    \/ StreamEnd
    \/ StreamFail
    \/ FinishIndividual
    \/ StartFinal
    \/ FinalChunk
    \/ FinalEnd
    \/ FinalFail
    \/ OtherStartIndividual
    \/ OtherBeginSection
    \/ OtherStreamChunk
    \/ OtherStreamEnd
    \/ OtherStreamFail
    \/ OtherFinishIndividual
    \/ OtherStartFinal
    \/ OtherFinalChunk
    \/ OtherFinalEnd
    \/ OtherFinalFail

TwoSpec == TwoInit /\ [][TwoNext]_vars

\* ---------------------------------------------------------------- properties

NumSections == Len(md_header_splits)

RECURSIVE Hashes(_)
Hashes(n) == IF n = 0 THEN <<>> ELSE <<"#">> \o Hashes(n - 1)

LevelOfKey(key) == CHOOSE L \in Levels : headers_to_split_on[L] = key

LevelsPresent(md) == {LevelOfKey(md[i].key) : i \in 1..Len(md)}

DeepestLevel(md) == CHOOSE L \in LevelsPresent(md) : \A M \in LevelsPresent(md) : M <= L

TextAtLevel(md, L) == md[CHOOSE i \in 1..Len(md) : LevelOfKey(md[i].key) = L].val

\* the heading line of the deepest level of a header path, nothing for the empty path
HeadingOfDeepest(md) ==
    IF md = <<>> THEN <<>>
    ELSE LET L == DeepestLevel(md)
         IN <<"\n">> \o Hashes(L) \o <<" ", TextAtLevel(md, L), "\n">>

\* header of section i followed by the chunks streamed for section i, for i = 1..n
RECURSIVE CombinedUpTo(_)
CombinedUpTo(n) ==
    IF n = 0 THEN <<>>
    ELSE CombinedUpTo(n - 1) \o HeaderToAppend(md_header_splits[n]) \o Flatten(received[n])

\* C1: when the stream of section k is exhausted, summary is exactly the
\* concatenation of header and streamed chunks of sections 1..k, in document order
C1_SummaryAtCompletion ==
    stream = "exhausted" => /\ Len(received) = k
                            /\ summary = CombinedUpTo(k)

C1_Witness ==
    /\ stream = "exhausted"
    /\ k = 2
    /\ Len(received[1]) = 2 /\ Flatten(received[1]) # <<>>
    /\ Flatten(received[2]) # <<>>
    /\ header_to_append # <<>>

Monotone(values) ==
    \A i \in 1..Len(values) : i < Len(values) => IsPrefix(values[i], values[i + 1])

\* C2: every value yielded by generate_individual_summary and by
\* generate_final_summary has the value yielded before it as a prefix
C2_MonotonicallyExtending ==
    /\ Monotone(emitted)
    /\ Monotone(final_emitted)

C2_Witness ==
    /\ Len(received) = 2
    /\ received[1] # <<>>
    /\ Flatten(received[2]) # <<>>
    /\ header_to_append # <<>>
    /\ Len(final_emitted) = 2 /\ final_emitted[1] # final_emitted[2]

\* the last value the aggregator yielded; the empty text when it yielded none
TerminalOutput == IF emitted = <<>> THEN <<>> ELSE Last(emitted)

\* C3: once generate_individual_summary has returned, the last value it yielded
\* holds every section's header followed by its summary, whatever the streams delivered
C3_TerminalOutputIsCombinedDocument ==
    stage = "Summarized" => TerminalOutput = CombinedUpTo(NumSections)

StageRank(s) ==
    CASE s = "Converting" -> 1
      [] s = "Splitting" -> 2
      [] s = "Summarizing" -> 3
      [] s = "Synthesizing" -> 4
      [] s = "Done" -> 5

Entered(s) == \E i \in 1..Len(entered) : entered[i] = s

\* C4: stages are entered in the order Converting, Splitting, Summarizing,
\* Synthesizing, none twice; the aggregator starts only after pdf_to_mmd returned,
\* the synthesizer only after the aggregator finished its last section
C4_StageOrder ==
    /\ \A i, j \in 1..Len(entered) : i < j => StageRank(entered[i]) < StageRank(entered[j])
    /\ Entered("Splitting") => conv = "returned"
    /\ Entered("Synthesizing") =>
        /\ k = NumSections
        /\ Len(summary_docs) = NumSections
        /\ stream \in {"none", "exhausted"}
    /\ Len(final_calls) <= 1

C4_Witness ==
    /\ stage = "Done"
    /\ entered = <<"Converting", "Splitting", "Summarizing", "Synthesizing", "Done">>
    /\ NumSections = 2

\* C5: the docs given to the final generation call is the terminal value of the
\* aggregator, also when the aggregator yielded nothing
C5_DocsIsTerminalOutput ==
    final_calls # <<>> => /\ docs = TerminalOutput
                          /\ final_calls[1] = TerminalOutput

\* C6: one generation call per section, issued in document order, the call for a
\* section only after the stream of the section before it is exhausted; at most
\* one stream is open; a run without failure calls every section exactly once
C6_SequentialSections ==
    /\ \A i \in 1..Len(calls) : calls[i].section = i
    /\ Len(calls) <= NumSections
    /\ Len(calls) - Len(summary_docs) \in {0, 1}
    /\ Len(calls) - Len(summary_docs) = 1 <=> stream \in {"open", "failed"}
    /\ stage \in {"Summarized", "Synthesizing", "Done"} => Len(calls) = NumSections

C6_Witness ==
    /\ stage = "Summarized"
    /\ Len(calls) = 2
    /\ calls[1].headers # calls[2].headers

\* C7: the header appended for a section is the heading line of the deepest
\* level of its header path with that level's text, and nothing when the path is empty
C7_DeepestHeaderOnly ==
    k >= 1 => header_to_append = HeadingOfDeepest(md_header_splits[k].metadata)

C7_Witness ==
    /\ k = 1
    /\ Len(md_header_splits[1].metadata) = 2
    /\ Len(header_to_append) > 0
    /\ stream = "open"

\* the OCR ran on an existing file and left no markup file
OcrFailed == conv \notin {"start", "acquired"} /\ file_exists /\ ~mmd_file.exists

\* C8: when the conversion fails, the aggregator is never invoked, no section is
\* created, no generation call is issued and the synthesizer is never invoked
C8_ConversionErrorStopsPipeline ==
    (OcrFailed \/ failed_at = "Converting") =>
        /\ ~Entered("Splitting") /\ ~Entered("Summarizing") /\ ~Entered("Synthesizing")
        /\ md_header_splits = <<>>
        /\ calls = <<>>
        /\ final_calls = <<>>
        /\ stage \in {"Converting", "Error"}

C8_Witness ==
    /\ OcrFailed
    /\ stage = "Error"
    /\ raised = "markdown_path does not exist"

\* C9: for a document of zero sections the synthesizer is not invoked, or its
\* generation call does not run to a normal end
C9_EmptyCombinedDocumentNotSynthesized ==
    (Entered("Splitting") /\ NumSections = 0) => final_stream # "exhausted"

NoRepeatedCall == \A i, j \in 1..Len(calls) : i # j => calls[i].section # calls[j].section

\* C10: a failed generation call of a section ends the aggregator with the failure,
\* no section is called twice, and from the failure on no call is issued and the
\* yielded values and the displayed value stay as they are
C10_FailurePropagatedNotRetried ==
    /\ [](stream = "failed" => stage = "Error" /\ failed_at = "Summarizing")
    /\ []NoRepeatedCall
    /\ [][(stream = "open" /\ stream' # "open" /\ stream' # "exhausted")
            => (stream' = "failed" /\ calls' = calls /\ emitted' = emitted
                /\ individual_summary' = individual_summary)]_vars
    /\ [][stream = "failed"
            => (stream' = "failed" /\ calls' = calls /\ emitted' = emitted
                /\ individual_summary' = individual_summary)]_vars

C10_Witness ==
    /\ stream = "failed"
    /\ k = 2
    /\ Len(emitted) >= 2
    /\ individual_summary = Last(emitted)

\* the text of the first j chunks of a stream
ChunksUpTo(chunks, j) == Flatten(SubSeq(chunks, 1, j))

\* C11: generate_final_summary has yielded one value per chunk delivered, the j-th
\* being the first j chunks joined; a failure of the final stream ends the run
\* with the failure, and from the failure on nothing more is yielded or displayed
C11_FinalFailureKeepsStreamedOnly ==
    /\ [](/\ Len(final_emitted) = Len(final_received)
          /\ \A j \in 1..Len(final_emitted) : final_emitted[j] = ChunksUpTo(final_received, j)
          /\ final_stream = "failed" => stage = "Error" /\ failed_at = "Synthesizing")
    /\ [][(final_stream = "failed" \/ final_stream' = "failed")
            => (final_emitted' = final_emitted /\ final_summary' = final_summary
                /\ final_calls' = final_calls)]_vars

C11_Witness ==
    /\ final_stream = "failed"
    /\ Len(final_received) = 2
    /\ final_emitted[2] # <<>>
    /\ final_summary = final_emitted[2]

StrictlyGrowing(values) ==
    \A i \in 1..Len(values) : i < Len(values) => Len(values[i]) < Len(values[i + 1])

C16_NoDataIsTerminalError ==
    acquired = "no_data" =>
        /\ ~Entered("Splitting") /\ ~Entered("Synthesizing")
        /\ calls = <<>>
        /\ final_calls = <<>>

\* C17: a generation failure in section k ends the run: sections after k are never
\* called, the synthesizer is never started, and nothing more is yielded
C17_SectionFailureAbortsRun ==
    /\ [](failed_at = "Summarizing" =>
            /\ stage = "Error"
            /\ Len(calls) = k
            /\ \A i \in 1..Len(calls) : calls[i].section <= k
            /\ final_calls = <<>>
            /\ ~Entered("Synthesizing"))
    /\ [][failed_at = "Summarizing"
            => (k' = k /\ emitted' = emitted /\ final_emitted' = final_emitted
                /\ stage' = "Error")]_vars

C17_Witness ==
    /\ failed_at = "Summarizing"
    /\ k = 1
    /\ NumSections = 2
    /\ emitted # <<>>

\* the value yielded at chunk j of section i: header and chunks of the sections
\* before i, the header of section i, the first j chunks of section i
ValueAt(splits, recv, i, j) ==
    LET RECURSIVE Before(_)
        Before(n) == IF n = 0 THEN <<>>
                     ELSE Before(n - 1) \o HeadingOfDeepest(splits[n].metadata)
                                        \o Flatten(recv[n])
    IN Before(i - 1) \o HeadingOfDeepest(splits[i].metadata) \o ChunksUpTo(recv[i], j)

\* one value per delivered chunk, in order of delivery
RECURSIVE ValuesFrom(_, _, _)
ValuesFrom(splits, recv, i) ==
    IF i > Len(recv) THEN <<>>
    ELSE [j \in 1..Len(recv[i]) |-> ValueAt(splits, recv, i, j)] \o ValuesFrom(splits, recv, i + 1)

RECURSIVE TotalChunks(_)
TotalChunks(recv) == IF recv = <<>> THEN 0 ELSE Len(Head(recv)) + TotalChunks(Tail(recv))

\* C18: generate_individual_summary yields exactly one value per delivered chunk
\* and none otherwise; the first value yielded for a section holds its header
C18_OneValuePerChunk ==
    /\ Len(emitted) = TotalChunks(received)
    /\ emitted = ValuesFrom(md_header_splits, received, 1)
    /\ stream = "open" /\ Last(received) = <<>> => TerminalOutput # summary \/ header_to_append = <<>>

C18_Witness ==
    /\ Len(received) = 2
    /\ Len(received[1]) = 1
    /\ Len(received[2]) = 2
    /\ header_to_append # <<>>
    /\ Len(emitted) = 3

\* an upper bound on the handler steps a run can still take: every section costs
\* its call, at most MaxChunks chunks and the end of its stream
SectionCost == MaxChunks + 2

FinalCost == MaxChunks + 2

AggregatorRemaining ==
    (NumSections - k) * SectionCost
    + (IF stream = "open" THEN MaxChunks - Len(Last(received)) + 1 ELSE 0)
    + 1

StepsLeft ==
    CASE stage = "Converting" ->
            (CASE conv = "start" -> 3 [] conv = "acquired" -> 2 [] OTHER -> 1)
            + 1 + MaxLines * SectionCost + 1 + FinalCost
      [] stage = "Converted" -> 1 + MaxLines * SectionCost + 1 + FinalCost
      [] stage \in {"Splitting", "Summarizing"} -> AggregatorRemaining + FinalCost
      [] stage = "Summarized" -> FinalCost
      [] stage = "Synthesizing" -> MaxChunks - Len(final_received) + 1
      [] OTHER -> 0

Running == stage \notin {"Idle", "Done", "Error"}

\* a started run reaches Done or Error
Termination == (stage # "Idle") ~> (stage \in {"Done", "Error"})

\* C19: with streams of at most MaxChunks chunks each, a started run terminates:
\* every step lowers the bound on the steps left, a handler can run until Done or
\* Error is reached, and both generators yield boundedly many values
C19_Terminates ==
    /\ [](Running => ENABLED Handlers)
    /\ [][stage # "Idle" => StepsLeft' < StepsLeft]_vars
    /\ [](/\ Len(emitted) <= NumSections * MaxChunks
          /\ Len(final_emitted) <= MaxChunks
          /\ Len(calls) <= NumSections)

C19_Witness ==
    /\ stage = "Done"
    /\ NumSections = 2
    /\ Len(emitted) = NumSections * MaxChunks
    /\ Len(final_emitted) = MaxChunks

\* the header path the markup gives the content line at position p: for each
\* level, the text of the last header of that level before p, unless a header of
\* a smaller level came after it
TrackedAt(doc, p) ==
    {[key |-> headers_to_split_on[doc[q].level], val |-> doc[q].text] :
        q \in {q \in 1..(p - 1) :
                 /\ doc[q].level \in Levels
                 /\ \A r \in (q + 1)..(p - 1) :
                        doc[r].level \in Levels => doc[r].level > doc[q].level}}

RECURSIVE PathsFrom(_, _)
PathsFrom(doc, p) ==
    IF p > Len(doc) THEN <<>>
    ELSE IF doc[p].level \in Levels THEN PathsFrom(doc, p + 1)
    ELSE <<TrackedAt(doc, p)>> \o PathsFrom(doc, p + 1)

\* neighbouring equal paths are one section
RECURSIVE Collapse(_)
Collapse(paths) ==
    IF Len(paths) <= 1 THEN paths
    ELSE IF paths[1] = paths[2] THEN Collapse(Tail(paths))
    ELSE <<paths[1]>> \o Collapse(Tail(paths))

PathSet(md) == {md[i] : i \in 1..Len(md)}

\* C13: in the header path of every section a header of level L has cleared the
\* tracked headers of level > L and kept those of level < L; the path holds at
\* most one text per level, the most recently seen one
C13_HeaderPathTracking ==
    Entered("Splitting") =>
        /\ [i \in 1..NumSections |-> PathSet(md_header_splits[i].metadata)]
             = Collapse(PathsFrom(parsed_output, 1))
        /\ \A i \in 1..NumSections :
             LET md == md_header_splits[i].metadata
             IN \A a, b \in 1..Len(md) : a < b => LevelOfKey(md[a].key) < LevelOfKey(md[b].key)

C13_Witness ==
    /\ stage = "Splitting"
    /\ NumSections = 2
    /\ Len(md_header_splits[1].metadata) = 2
    /\ Len(md_header_splits[2].metadata) = 2
    /\ md_header_splits[1].metadata[1] = md_header_splits[2].metadata[1]
    /\ md_header_splits[1].metadata[2].key = "Header 3"
    /\ md_header_splits[2].metadata[2].key = "Header 2"

NoHeaders(doc) == \A i \in 1..Len(doc) : doc[i].level = 0

\* C14: a document without headers, the empty one included, is split into exactly
\* one section with an empty header path and the whole document as body, so one
\* generation call is issued and no header is appended
C14_NoHeadersOneSection ==
    (Entered("Splitting") /\ NoHeaders(parsed_output)) =>
        /\ NumSections = 1
        /\ md_header_splits[1].metadata = <<>>
        /\ md_header_splits[1].page_content = [i \in 1..Len(parsed_output) |-> parsed_output[i].text]
        /\ k >= 1 => header_to_append = <<>>
        /\ stage \in {"Summarized", "Synthesizing", "Done"} => Len(calls) = 1

\* C15: the two generators keep no state between invocations. With two invocations
\* interleaved in any order, every value an invocation emits is built from its own
\* sections and the chunks its own streams delivered (each accumulator having started
\* empty), and every value of its final summary is the concatenation of its own final
\* chunks; an invocation that has not emitted anything holds an empty accumulator.
OwnSections(inv) == inv.emitted = ValuesFrom(inv.md_header_splits, inv.received, 1)

OwnFinal(inv) ==
    /\ Len(inv.final_emitted) = Len(inv.final_received)
    /\ \A j \in 1..Len(inv.final_emitted) :
        inv.final_emitted[j] = ChunksUpTo(inv.final_received, j)

StartsEmpty(inv) ==
    /\ inv.stage = "Splitting" => inv.summary = <<>>
    /\ inv.stage = "Synthesizing" /\ inv.final_received = <<>> => inv.final_acc = <<>>

FirstInvocation ==
    [stage |-> stage, md_header_splits |-> md_header_splits, summary |-> summary,
     received |-> received, emitted |-> emitted, final_acc |-> final_acc,
     final_received |-> final_received, final_emitted |-> final_emitted]

C15_NoStateAcrossInvocations ==
    /\ OwnSections(FirstInvocation) /\ OwnFinal(FirstInvocation) /\ StartsEmpty(FirstInvocation)
    /\ OwnSections(other) /\ OwnFinal(other) /\ StartsEmpty(other)

\* both invocations are in the middle of a section, each having emitted a non-empty
\* chunk, on different documents
C15_Witness ==
    /\ stage = "Summarizing" /\ other.stage = "Summarizing"
    /\ parsed_output # other.parsed_output
    /\ emitted # <<>> /\ other.emitted # <<>>
    /\ Last(Last(received)) # <<>> /\ Last(Last(other.received)) # <<>>

====
